---- MODULE Spec2Model ----
(***************************************************************************)
(* A model of src/index.js: the milestone report of a ZenHub board.        *)
(* main() fetches the board and, concurrently, the issues of every         *)
(* repository of the workspace, builds the index from issue identity to    *)
(* pipeline position, classifies the issues into the pipelines plus a      *)
(* synthetic "Closed" stage, and prints per stage the issues of the        *)
(* current milestone and their points, then the open / total line.         *)
(***************************************************************************)
EXTENDS Integers, Sequences, FiniteSets, TLC

VARIABLES
    pc,                   \* where main() stands
    board,                \* the board snapshot, as the board endpoint returns it
    remote,               \* what each repository's issue endpoint returns
    settled,              \* the requests of allIssuePromises that have resolved
    allResults,           \* the array Promise.all resolves with, as it fills
    issues,               \* the flattened issues
    repoIssuePipelineMap, \* the index: identity key -> pipeline position (0-based)
    richPipelines,        \* the stages: [name, issues]
    stats,                \* [open, closed]
    sections,             \* per stage processed: name, milestoneIssues, totalPoints
    out                   \* the lines written by console.log

vars == <<pc, board, remote, settled, allResults, issues, repoIssuePipelineMap,
          richPipelines, stats, sections, out>>

----------------------------------------------------------------------------
(* Bounds of the model. *)

MaxIssues == 2      \* issues returned by all repositories together
MaxPipelines == 2   \* pipelines declared by the board

----------------------------------------------------------------------------
(* JavaScript values: numbers, null, undefined and NaN, told apart by tag. *)

Num(n) == [t |-> "number", v |-> n]
Null == [t |-> "null", v |-> 0]
Undefined == [t |-> "undefined", v |-> 0]
NaN == [t |-> "NaN", v |-> 0]

\* ToNumber of the abstract operation behind the binary + on non-strings.
JsToNumber(a) ==
    CASE a.t = "number" -> a
      [] a.t = "null" -> Num(0)
      [] OTHER -> NaN

\* a + b for operands that are numbers, null or undefined.
JsAdd(a, b) ==
    LET x == JsToNumber(a)
        y == JsToNumber(b)
    IN IF x.t = "NaN" \/ y.t = "NaN" THEN NaN ELSE Num(x.v + y.v)

\* The string a template literal makes of a value.
JsToString(a) ==
    CASE a.t = "number" -> ToString(a.v)
      [] a.t = "null" -> "null"
      [] a.t = "undefined" -> "undefined"
      [] OTHER -> "NaN"

----------------------------------------------------------------------------
(* The configuration and the helpers of lodash the report uses. *)

currentMilestone == "v1"

\* `${repo_id}.${issue_number}`
KeyOf(repo_id, number) == ToString(repo_id) \o "." \o ToString(number)

RECURSIVE Flatten(_)
Flatten(arrays) ==
    IF Len(arrays) = 0 THEN <<>> ELSE Head(arrays) \o Flatten(Tail(arrays))

RECURSIVE Repeat(_, _)
Repeat(s, n) == IF n <= 0 THEN "" ELSE s \o Repeat(s, n - 1)

\* issue.milestone && issue.milestone.title === currentMilestone
CaselessMilestoneMatches(issue) ==
    issue.milestone.has /\ issue.milestone.title \in {"v1", "V1"}
MilestoneMatches(issue) ==
    issue.milestone.has /\ issue.milestone.title = currentMilestone

RECURSIVE FilterMilestone(_)
FilterMilestone(list) ==
    IF Len(list) = 0 THEN <<>>
    ELSE (IF MilestoneMatches(Head(list)) THEN <<Head(list)>> ELSE <<>>)
         \o FilterMilestone(Tail(list))

\* lodash's baseSum: undefined values are skipped, the first defined value
\* starts the result, the others are added with +.
RECURSIVE BaseSum(_, _)
BaseSum(list, result) ==
    IF Len(list) = 0 THEN result
    ELSE LET current == Head(list).estimate
         IN BaseSum(Tail(list),
                    IF current.t = "undefined" THEN result
                    ELSE IF result.t = "undefined" THEN current
                    ELSE JsAdd(result, current))

\* _.sumBy(milestoneIssues, "estimate")
SumBy(list) == IF Len(list) = 0 THEN Num(0) ELSE BaseSum(list, Undefined)

----------------------------------------------------------------------------
(* The inputs: the workspace, the issues of its repositories, the board.   *)

Repos == <<1, 11>>
RepoIdx == 1 .. Len(Repos)

\* The number of the issue at position p of a repository's list.
NumberAt(p) == IF p = 1 THEN 2 ELSE 10 + p

NoMilestone == [has |-> FALSE, title |-> ""]
Milestone(title) == [has |-> TRUE, title |-> title]

\* What varies from issue to issue: a pull request; open and closed issues
\* of the milestone with an estimate; issues of the milestone whose estimate
\* is absent or null; issues of another milestone or of none.
Kind(state, pr, milestone, estimate) ==
    [state |-> state, pull_request |-> pr, milestone |-> milestone,
     estimate |-> estimate]
IssueKinds ==
    {Kind("open", TRUE, Milestone("v1"), Num(1)),
     Kind("open", FALSE, Milestone("v1"), Num(3)),
     Kind("closed", FALSE, Milestone("v1"), Num(5)),
     Kind("open", FALSE, Milestone("v1"), Undefined),
     Kind("open", FALSE, Milestone("v1"), Null),
     Kind("open", FALSE, Milestone("V1"), Num(2)),
     Kind("closed", FALSE, NoMilestone, Num(2))}

MakeIssue(r, p, kind) ==
    [repo_id |-> Repos[r], number |-> NumberAt(p),
     repo_name |-> "repo" \o ToString(Repos[r]),
     title |-> "Title",
     html_url |-> "https://github.com/o/repo" \o ToString(Repos[r])
                  \o "/issues/" \o ToString(NumberAt(p)),
     assignee |-> IF r = 1 THEN [has |-> TRUE, login |-> "ann"]
                  ELSE [has |-> FALSE, login |-> ""],
     state |-> kind.state, pull_request |-> kind.pull_request,
     milestone |-> kind.milestone, estimate |-> kind.estimate]

\* The issue lists of one repository, of a given length.
IssueLists(r, n) ==
    {[p \in 1 .. n |-> MakeIssue(r, p, f[p])] : f \in [1 .. n -> IssueKinds]}

\* What the repositories return: MaxIssues issues at most, all together.
Remotes ==
    UNION {{<<l1, l2>> : l1 \in IssueLists(1, n[1]), l2 \in IssueLists(2, n[2])}
           : n \in {m \in (0 .. MaxIssues) \X (0 .. MaxIssues) :
                      m[1] + m[2] <= MaxIssues}}

\* The pipelines a board may declare.  They list the first issue of each
\* repository, whether or not the repository still returns it.
Ref(r, p) == [repo_id |-> Repos[r], issue_number |-> NumberAt(p)]
Pipeline(name, refs) == [name |-> name, issues |-> refs]
PipelineDefs ==
    {Pipeline("In Progress", <<Ref(1, 1), Ref(2, 1)>>),
     Pipeline("Done", <<Ref(1, 1)>>),
     Pipeline("Closed", <<>>)}
Boards ==
    {[pipelines |-> ps] : ps \in UNION {[1 .. P -> PipelineDefs] : P \in 0 .. MaxPipelines}}

\* The board and the issues of the example: "In Progress" lists #10, "Done"
\* lists #11, and #12 is on no pipeline.
ExampleIssue(number, state, estimate) ==
    [repo_id |-> 1, number |-> number, repo_name |-> "repo1", title |-> "Title",
     html_url |-> "https://github.com/o/repo1/issues/" \o ToString(number),
     assignee |-> [has |-> FALSE, login |-> ""],
     state |-> state, pull_request |-> FALSE,
     milestone |-> Milestone("v1"), estimate |-> Num(estimate)]
ExampleBoard ==
    [pipelines |->
        <<[name |-> "In Progress", issues |-> <<[repo_id |-> 1, issue_number |-> 10]>>],
          [name |-> "Done", issues |-> <<[repo_id |-> 1, issue_number |-> 11]>>]>>]
ExampleRemote ==
    <<<<ExampleIssue(10, "open", 3), ExampleIssue(11, "closed", 5),
        ExampleIssue(12, "closed", 2)>>, <<>>>>

Inputs == (Boards \X Remotes) \cup {<<ExampleBoard, ExampleRemote>>}

----------------------------------------------------------------------------
(* The statements of main(), as operators on the values they read and      *)
(* write.                                                                  *)

\* Promise.all: the value of the i-th promise is the i-th result, whenever
\* it resolves.
SettleInCompletionOrder(results, done, i, value) ==
    [results EXCEPT ![Cardinality(done) + 1] = value]
SettleAt(results, done, i, value) == [results EXCEPT ![i] = value]

\* repoIssuePipelineMap[`${repo_id}.${issue_number}`] = idx
KeepFirstEntry(map, key, idx) ==
    IF key \in DOMAIN map THEN map
    ELSE [x \in DOMAIN map \cup {key} |-> IF x = key THEN idx ELSE map[x]]
SetEntry(map, key, idx) ==
    [x \in DOMAIN map \cup {key} |-> IF x = key THEN idx ELSE map[x]]

\* pipelineIssues.map(...) of the pipeline at position idx.
RECURSIVE IndexPipeline(_, _, _)
IndexPipeline(map, pipelineIssues, idx) ==
    IF Len(pipelineIssues) = 0 THEN map
    ELSE IndexPipeline(
             SetEntry(map, KeyOf(Head(pipelineIssues).repo_id,
                                 Head(pipelineIssues).issue_number), idx),
             Tail(pipelineIssues), idx)

Push(rp, pos, issue) == [rp EXCEPT ![pos].issues = Append(@, issue)]

\* The callback of issues.map(...): the stages after one issue.
ClassifyIgnoringState(rp, map, issue) ==
    LET key == KeyOf(issue.repo_id, issue.number)
    IN IF issue.pull_request THEN rp
       ELSE IF key \in DOMAIN map THEN Push(rp, map[key] + 1, issue)
       ELSE Push(rp, Len(rp), issue)
ClassifyKeepingPullRequests(rp, map, issue) ==
    LET key == KeyOf(issue.repo_id, issue.number)
    IN IF key \in DOMAIN map /\ issue.state # "closed"
       THEN Push(rp, map[key] + 1, issue)
       ELSE Push(rp, Len(rp), issue)
Classify(rp, map, issue) ==
    LET key == KeyOf(issue.repo_id, issue.number)
    IN IF issue.pull_request THEN rp
       ELSE IF key \in DOMAIN map /\ issue.state # "closed"
       THEN Push(rp, map[key] + 1, issue)
       ELSE Push(rp, Len(rp), issue)

\* name === "Done" || name === "Closed"
OnlyClosedCounts(name) == name = "Closed"
CountsAsClosed(name) == name = "Done" \/ name = "Closed"

\* stats after a stage of that name and those points.
AddPoints(st, name, totalPoints) ==
    IF CountsAsClosed(name)
    THEN [st EXCEPT !.closed = JsAdd(st.closed, totalPoints)]
    ELSE [st EXCEPT !.open = JsAdd(st.open, totalPoints)]

\* The two lines of one issue of the milestone.
IssueLines(issue) ==
    <<issue.repo_name \o "#" \o ToString(issue.number) \o ": " \o issue.title
        \o " [" \o JsToString(issue.estimate) \o " pts]"
        \o (IF issue.assignee.has THEN " " \o issue.assignee.login ELSE ""),
      issue.html_url>>

RECURSIVE BodyLines(_)
BodyLines(milestoneIssues) ==
    IF Len(milestoneIssues) = 0 THEN <<>>
    ELSE IssueLines(Head(milestoneIssues)) \o BodyLines(Tail(milestoneIssues))

\* The lines one stage writes.
SectionWithoutSeparator(name, milestoneIssues, totalPoints) ==
    LET sectionTitle == name \o " - " \o JsToString(totalPoints) \o " Points"
    IN <<sectionTitle, Repeat("-", Len(sectionTitle))>>
       \o (IF Len(milestoneIssues) = 0 THEN <<"None">> ELSE BodyLines(milestoneIssues))
SectionLines(name, milestoneIssues, totalPoints) ==
    LET sectionTitle == name \o " - " \o JsToString(totalPoints) \o " Points"
    IN <<sectionTitle, Repeat("-", Len(sectionTitle))>>
       \o (IF Len(milestoneIssues) = 0 THEN <<"None">> ELSE BodyLines(milestoneIssues))
       \o <<" ">>

\* `Total: ${stats.open} / ${stats.closed + stats.open}`
TotalLine(st) ==
    "Total: " \o JsToString(st.open) \o " / " \o JsToString(JsAdd(st.closed, st.open))

----------------------------------------------------------------------------
(* The passes of main(): each .map(...) call runs to its end before the    *)
(* next statement, so a pass is an operator on whole lists.                *)

\* board.pipelines.map(...): the index after the pipelines at positions
\* 0 .. n-1, and the stages it returns.
RECURSIVE IndexOfBoard(_, _)
IndexOfBoard(b, n) ==
    IF n = 0 THEN <<>>
    ELSE IndexPipeline(IndexOfBoard(b, n - 1), b.pipelines[n].issues, n - 1)

EmptyStages(b) ==
    [i \in 1 .. Len(b.pipelines) |-> [name |-> b.pipelines[i].name, issues |-> <<>>]]

ClosedStageRecord == [name |-> "Closed", issues |-> <<>>]

\* issues.map(...): the stages after the first n issues of the list.
RECURSIVE ClassifyAll(_, _, _, _)
ClassifyAll(rp, map, list, n) ==
    IF n = 0 THEN rp
    ELSE Classify(ClassifyAll(rp, map, list, n - 1), map, list[n])

\* The locals of the callback of richPipelines.map(...), per stage.
SectionsOf(rp) ==
    [i \in 1 .. Len(rp) |->
        LET milestoneIssues == FilterMilestone(rp[i].issues)
        IN [name |-> rp[i].name, milestoneIssues |-> milestoneIssues,
            totalPoints |-> SumBy(milestoneIssues)]]

\* stats after the stages at the positions order[1], ..., order[n].
RECURSIVE StatsInOrder(_, _, _)
StatsInOrder(secs, order, n) ==
    IF n = 0 THEN [open |-> Num(0), closed |-> Num(0)]
    ELSE AddPoints(StatsInOrder(secs, order, n - 1), secs[order[n]].name,
                   secs[order[n]].totalPoints)

\* richPipelines.map(...) takes the stages in their order.
StatsOfSections(secs) == StatsInOrder(secs, [i \in 1 .. Len(secs) |-> i], Len(secs))

\* The lines the first n stages write.
RECURSIVE LinesOfSections(_, _)
LinesOfSections(secs, n) ==
    IF n = 0 THEN <<>>
    ELSE LinesOfSections(secs, n - 1)
         \o SectionLines(secs[n].name, secs[n].milestoneIssues, secs[n].totalPoints)

\* The stages and the totals of a board and a list of issues.
StagesOf(b, list) ==
    ClassifyAll(Append(EmptyStages(b), ClosedStageRecord),
                IndexOfBoard(b, Len(b.pipelines)), list, Len(list))
StatsOf(rp) == StatsOfSections(SectionsOf(rp))

----------------------------------------------------------------------------
(* The state machine. *)

NumPipelines == Len(board.pipelines)

Init ==
    /\ \E input \in Inputs : board = input[1] /\ remote = input[2]
    /\ pc = "fetch"
    /\ settled = {}
    /\ allResults = [r \in RepoIdx |-> <<>>]
    /\ issues = <<>>
    /\ repoIssuePipelineMap = <<>>
    /\ richPipelines = <<>>
    /\ stats = [open |-> Num(0), closed |-> Num(0)]
    /\ sections = <<>>
    /\ out = <<>>

\* The request for the issues of one repository resolves.
FetchResolves(r) ==
    /\ pc = "fetch"
    /\ r \notin settled
    /\ allResults' = SettleAt(allResults, settled, r, remote[r])
    /\ settled' = settled \cup {r}
    /\ UNCHANGED <<pc, board, remote, issues, repoIssuePipelineMap, richPipelines,
                   stats, sections, out>>

\* Promise.all resolves once every request has; main() goes on with the
\* flattened results.
Join ==
    /\ pc = "fetch"
    /\ settled = RepoIdx
    /\ issues' = Flatten(allResults)
    /\ pc' = "index"
    /\ UNCHANGED <<board, remote, settled, allResults, repoIssuePipelineMap,
                   richPipelines, stats, sections, out>>

\* const richPipelines = board.pipelines.map(...)
MapPipelines ==
    /\ pc = "index"
    /\ repoIssuePipelineMap' = IndexOfBoard(board, NumPipelines)
    /\ richPipelines' = EmptyStages(board)
    /\ pc' = "push"
    /\ UNCHANGED <<board, remote, settled, allResults, issues, stats, sections, out>>

\* richPipelines.push({ name: "Closed", issues: [] })
PushClosed ==
    /\ pc = "push"
    /\ richPipelines' = Append(richPipelines, ClosedStageRecord)
    /\ pc' = "classify"
    /\ UNCHANGED <<board, remote, settled, allResults, issues, repoIssuePipelineMap,
                   stats, sections, out>>

\* issues.map(...)
ClassifyIssues ==
    /\ pc = "classify"
    /\ richPipelines' =
           ClassifyAll(richPipelines, repoIssuePipelineMap, issues, Len(issues))
    /\ pc' = "report"
    /\ UNCHANGED <<board, remote, settled, allResults, issues, repoIssuePipelineMap,
                   stats, sections, out>>

\* richPipelines.map(...)
ReportStages ==
    /\ pc = "report"
    /\ sections' = SectionsOf(richPipelines)
    /\ stats' = StatsOfSections(sections')
    /\ out' = LinesOfSections(sections', Len(sections'))
    /\ pc' = "total"
    /\ UNCHANGED <<board, remote, settled, allResults, issues, repoIssuePipelineMap,
                   richPipelines>>

\* console.log(`Total: ...`)
PrintTotal ==
    /\ pc = "total"
    /\ out' = Append(out, TotalLine(stats))
    /\ pc' = "done"
    /\ UNCHANGED <<board, remote, settled, allResults, issues, repoIssuePipelineMap,
                   richPipelines, stats, sections>>

Next ==
    \/ \E r \in RepoIdx : FetchResolves(r)
    \/ Join
    \/ MapPipelines
    \/ PushClosed
    \/ ClassifyIssues
    \/ ReportStages
    \/ PrintTotal

Spec == Init /\ [][Next]_vars

----------------------------------------------------------------------------
(* What the statements below speak of. *)

Finished == pc = "done"
Stages == 1 .. Len(richPipelines)
ClosedStage == NumPipelines + 1

Range(seq) == {seq[i] : i \in 1 .. Len(seq)}
OnMilestone(x) == x.milestone.has /\ x.milestone.title = "v1"
HasPoints(x) == x.estimate.t = "number" /\ x.estimate.v > 0

\* How many times an issue stands in the lists of the stages.
Occurrences(x) ==
    Cardinality({ij \in Stages \X (1 .. Len(issues)) :
                    /\ ij[2] <= Len(richPipelines[ij[1]].issues)
                    /\ richPipelines[ij[1]].issues[ij[2]] = x})

\* The pipelines of the board that list an identity, by position (1-based).
ListedIn(repo_id, number) ==
    {i \in 1 .. NumPipelines :
        \E j \in 1 .. Len(board.pipelines[i].issues) :
            board.pipelines[i].issues[j] = [repo_id |-> repo_id, issue_number |-> number]}
Max(S) == CHOOSE m \in S : \A n \in S : n <= m

\* The stage the placement rule gives an issue that is no pull request.
RuleStage(x) ==
    IF ListedIn(x.repo_id, x.number) # {} /\ x.state # "closed"
    THEN Max(ListedIn(x.repo_id, x.number))
    ELSE ClosedStage

----------------------------------------------------------------------------
\* C1: when main() has run, so after the classification pass, every issue
\* that is no pull request stands exactly once in the lists of the stages,
\* no pull request stands in any, and the issues of all stages together are
\* the issues that are no pull request.
C1_Partition ==
    Finished =>
        /\ \A x \in Range(issues) : Occurrences(x) = IF x.pull_request THEN 0 ELSE 1
        /\ UNION {Range(richPipelines[i].issues) : i \in Stages}
               = {x \in Range(issues) : ~x.pull_request}

\* A pull request that the board lists, beside an issue placed on a pipeline.
C1_Witness ==
    /\ Finished
    /\ \E x \in Range(issues) : x.pull_request /\ ListedIn(x.repo_id, x.number) # {}
    /\ \E i \in 1 .. NumPipelines : richPipelines[i].issues # <<>>

\* C2: an issue that is no pull request is appended to the stage at its
\* index position when the board lists its identity and its state is not
\* closed, and to the synthetic Closed stage at position P otherwise: the
\* list of every stage is exactly the issues the rule sends there, in order.
C2_Placement ==
    Finished =>
        /\ Len(richPipelines) = NumPipelines + 1
        /\ \A i \in Stages :
               richPipelines[i].issues
                   = SelectSeq(issues, LAMBDA x : ~x.pull_request /\ RuleStage(x) = i)

C2_Witness ==
    /\ Finished
    /\ \E x \in Range(richPipelines[ClosedStage].issues) :
           /\ x.state = "closed"
           /\ ListedIn(x.repo_id, x.number) # {}
           /\ board.pipelines[Max(ListedIn(x.repo_id, x.number))].name = "Done"
    /\ \E i \in 1 .. NumPipelines : richPipelines[i].issues # <<>>

\* The sum of the estimates that are numbers.
RECURSIVE NumericSum(_)
NumericSum(list) ==
    IF Len(list) = 0 THEN 0
    ELSE (IF Head(list).estimate.t = "number" THEN Head(list).estimate.v ELSE 0)
         + NumericSum(Tail(list))

\* C3: an issue of the milestone without an estimate (absent or null) adds
\* exactly 0 to the points of its stage and is listed in the body: the points
\* of every stage are the number that sums the numeric estimates of its
\* issues of the milestone, 0 when none has an estimate.
C3_MissingEstimateIsZero ==
    Finished =>
        \A i \in Stages :
            LET matching == SelectSeq(richPipelines[i].issues, OnMilestone)
            IN /\ sections[i].totalPoints = Num(NumericSum(matching))
               /\ \A x \in Range(matching) : IssueLines(x)[2] \in Range(out)

\* a === b on numbers: NaN is equal to nothing, itself included.
JsStrictEquals(a, b) == a.t # "NaN" /\ b.t # "NaN" /\ a = b

\* The points of all stages, added as the code adds.
RECURSIVE SumOfTotals(_)
SumOfTotals(secs) ==
    IF Len(secs) = 0 THEN Num(0)
    ELSE JsAdd(SumOfTotals(SubSeq(secs, 1, Len(secs) - 1)), secs[Len(secs)].totalPoints)

\* C4: at the end stats.open + stats.closed equals the sum of the points of
\* all stages, each counted once.
C4_TotalsConsistent ==
    Finished =>
        /\ Len(sections) = NumPipelines + 1
        /\ JsStrictEquals(JsAdd(stats.open, stats.closed), SumOfTotals(sections))

\* C5: the filtered list of a stage is the issues of the stage whose
\* milestone title is exactly the configured one, in order; the other issues
\* stay in their stage and change neither the points of any stage nor the
\* totals: the run on the issues of the milestone alone gives the same.
C5_MilestoneFilter ==
    Finished =>
        LET alone == SectionsOf(StagesOf(board, SelectSeq(issues, OnMilestone)))
        IN /\ \A i \in Stages :
                  /\ sections[i].milestoneIssues
                         = SelectSeq(richPipelines[i].issues, OnMilestone)
                  /\ sections[i].totalPoints = alone[i].totalPoints
           /\ stats = StatsOfSections(alone)
           /\ \A x \in Range(issues) :
                  ~x.pull_request => \E i \in Stages : x \in Range(richPipelines[i].issues)

C5_Witness ==
    /\ Finished
    /\ \E i \in Stages :
           /\ \E x \in Range(richPipelines[i].issues) :
                  x.milestone.has /\ x.milestone.title = "V1" /\ HasPoints(x)
           /\ \E x \in Range(richPipelines[i].issues) : OnMilestone(x) /\ HasPoints(x)

\* The points of the stages on the closed side, or on the open side.
RECURSIVE SumWhere(_, _)
SumWhere(secs, closedSide) ==
    IF Len(secs) = 0 THEN Num(0)
    ELSE LET last == secs[Len(secs)]
             rest == SumWhere(SubSeq(secs, 1, Len(secs) - 1), closedSide)
         IN IF (last.name \in {"Done", "Closed"}) = closedSide
            THEN JsAdd(rest, last.totalPoints)
            ELSE rest

\* C6: the points of a stage go to stats.closed when its name is exactly
\* "Done" or "Closed" and to stats.open otherwise; the totals are the same in
\* whatever order the stages are taken; the last line is
\* "Total: {open} / {open + closed}", "Total: 3 / 10" on the example.
C6_OpenClosedTotals ==
    Finished =>
        /\ stats.closed = SumWhere(sections, TRUE)
        /\ stats.open = SumWhere(sections, FALSE)
        /\ \A order \in Permutations(Stages) :
               StatsInOrder(sections, order, Len(sections)) = stats
        /\ out[Len(out)] = "Total: " \o JsToString(stats.open) \o " / "
                               \o JsToString(JsAdd(stats.open, stats.closed))
        /\ (board = ExampleBoard /\ remote = ExampleRemote)
               => out[Len(out)] = "Total: 3 / 10"

C6_Witness ==
    /\ Finished
    /\ board = ExampleBoard
    /\ remote = ExampleRemote
    /\ stats = [open |-> Num(3), closed |-> Num(7)]

\* The identities the board lists.
ListedRefs ==
    UNION {Range(board.pipelines[i].issues) : i \in 1 .. NumPipelines}

\* C7: the index holds one entry per identity the board lists, the position
\* of the last pipeline that lists it; an open issue listed in several
\* pipelines stands in the stage of the last of them only.
C7_LastPipelineWins ==
    /\ Finished =>
           /\ Cardinality(DOMAIN repoIssuePipelineMap) = Cardinality(ListedRefs)
           /\ \A ref \in ListedRefs :
                  /\ KeyOf(ref.repo_id, ref.issue_number) \in DOMAIN repoIssuePipelineMap
                  /\ repoIssuePipelineMap[KeyOf(ref.repo_id, ref.issue_number)]
                         = Max(ListedIn(ref.repo_id, ref.issue_number)) - 1
    /\ Finished =>
           \A x \in Range(issues) :
               (/\ ~x.pull_request
                /\ x.state # "closed"
                /\ Cardinality(ListedIn(x.repo_id, x.number)) > 1)
               => \A i \in Stages :
                      x \in Range(richPipelines[i].issues)
                          <=> i = Max(ListedIn(x.repo_id, x.number))

C7_Witness ==
    /\ Finished
    /\ \E x \in Range(issues) :
           /\ ~x.pull_request
           /\ x.state # "closed"
           /\ Cardinality(ListedIn(x.repo_id, x.number)) > 1
           /\ x \in Range(richPipelines[Max(ListedIn(x.repo_id, x.number))].issues)

\* Where the section of a stage starts in the report, and its length.
MatchingOf(i) == SelectSeq(richPipelines[i].issues, OnMilestone)
SectionLen(i) == 3 + (IF Len(MatchingOf(i)) = 0 THEN 1 ELSE 2 * Len(MatchingOf(i)))
RECURSIVE SectionStart(_)
SectionStart(i) == IF i = 1 THEN 0 ELSE SectionStart(i - 1) + SectionLen(i - 1)

\* C8: the report is P + 1 sections, the pipelines in board order and then
\* "Closed", and the Total line after them; a section is its header, as many
\* dashes as the header is long, "None" or the two lines of each issue of the
\* milestone in stage order, and the separator line.
C8_ReportLayout ==
    Finished =>
        /\ Len(richPipelines) = NumPipelines + 1
        /\ Len(out) = SectionStart(NumPipelines + 1) + SectionLen(NumPipelines + 1) + 1
        /\ \A i \in Stages :
               LET at == SectionStart(i)
                   name == IF i <= NumPipelines THEN board.pipelines[i].name ELSE "Closed"
                   header == name \o " - " \o JsToString(sections[i].totalPoints)
                                  \o " Points"
                   m == MatchingOf(i)
               IN /\ out[at + 1] = header
                  /\ Len(out[at + 2]) = Len(header)
                  /\ out[at + 2] = Repeat("-", Len(out[at + 2]))
                  /\ IF Len(m) = 0 THEN out[at + 3] = "None"
                     ELSE \A j \in 1 .. Len(m) :
                              /\ out[at + 1 + 2 * j] = IssueLines(m[j])[1]
                              /\ out[at + 2 + 2 * j] = m[j].html_url
                  /\ out[at + SectionLen(i)] = " "
        /\ out[Len(out)] = TotalLine(stats)

C8_Witness ==
    /\ Finished
    /\ NumPipelines = 2
    /\ \E i \in 1 .. NumPipelines : board.pipelines[i].name = "Closed"
    /\ \E i \in Stages : Len(MatchingOf(i)) = 0
    /\ \E i \in Stages : Len(MatchingOf(i)) = 2

\* The lists of the first n repositories of the workspace, in its order.
RECURSIVE InRepoOrder(_)
InRepoOrder(n) == IF n = 0 THEN <<>> ELSE InRepoOrder(n - 1) \o remote[n]

\* C9: main() goes on only when the request of every repository has
\* resolved, and the flattened issues are the lists of the repositories in
\* workspace order, whatever the order in which the requests resolved.
C9_JoinInRepoOrder ==
    pc # "fetch" =>
        /\ settled = RepoIdx
        /\ issues = InRepoOrder(Len(Repos))
        /\ Finished => richPipelines = StagesOf(board, InRepoOrder(Len(Repos)))

C9_Witness ==
    /\ Finished
    /\ remote[1] # <<>>
    /\ remote[2] # <<>>
    /\ ~remote[1][1].pull_request
    /\ ~remote[2][1].pull_request
    /\ issues = remote[1] \o remote[2]

\* C10: no closed issue adds to stats.open: every closed issue that is no
\* pull request stands in the synthetic Closed stage only, whose points go to
\* stats.closed, and stats.open is what the run on the other issues gives.
C10_ClosedNeverOpen ==
    Finished =>
        /\ \A x \in Range(issues) :
               (~x.pull_request /\ x.state = "closed")
               => \A i \in Stages :
                      x \in Range(richPipelines[i].issues) <=> i = ClosedStage
        /\ richPipelines[ClosedStage].name = "Closed"
        /\ stats.closed = SumWhere(sections, TRUE)
        /\ stats.open
               = StatsOf(StagesOf(board, SelectSeq(issues, LAMBDA x : x.state # "closed"))).open

\* A closed issue with points that an "In Progress" pipeline lists, and an
\* open issue with points whose pipeline is named "Done": both add to
\* stats.closed.
C10_Witness ==
    /\ Finished
    /\ \E x \in Range(issues) :
           /\ ~x.pull_request /\ x.state = "closed" /\ OnMilestone(x) /\ HasPoints(x)
           /\ ListedIn(x.repo_id, x.number) # {}
           /\ board.pipelines[Max(ListedIn(x.repo_id, x.number))].name = "In Progress"
    /\ \E x \in Range(issues) :
           /\ ~x.pull_request /\ x.state = "open" /\ OnMilestone(x) /\ HasPoints(x)
           /\ ListedIn(x.repo_id, x.number) # {}
           /\ board.pipelines[Max(ListedIn(x.repo_id, x.number))].name = "Done"
    /\ stats.open = Num(0)
    /\ stats.closed = Num(8)

====
